---- MODULE Spec2Model ----
(***************************************************************************)
(* Cart mutation of the e-commerce backend (cart/serializers.py,           *)
(* cart/views.py, cart/models.py) as a state machine.                      *)
(*                                                                         *)
(* Every request is served by its own handler process.  A handler step is  *)
(* one database round trip (or a run of them that reads nothing another    *)
(* request can change).  The database is the committed state (carts,       *)
(* items, stock); what a transaction has written and not yet committed is  *)
(* kept in the handler's local record and is invisible to the others; row  *)
(* locks and unique-index waits are guards that keep a handler from        *)
(* stepping until the holder commits or rolls back.  The database is taken *)
(* as Django's default: autocommit outside transaction.atomic(), READ      *)
(* COMMITTED inside, row locks for select_for_update, UPDATE and DELETE.   *)
(***************************************************************************)
EXTENDS Integers, FiniteSets, Sequences, TLC

(* ------------------------------ bounds -------------------------------- *)
\* request handlers in all; each serves one request at a time
NumProcs == 3
\* handlers that serve request after request in Spec, any operation each time
NumWorkers == 2
\* CartItem rows ever inserted (primary keys handed out)
MaxItems == 2
\* largest ProductSize.quantity the stock ledger holds
MaxStock == 3
\* largest quantity a request asks for
MaxQty == 2
\* quantity of the line item SpecPutAdd starts from
HeldAtStart == 1
\* largest Product.price the catalog sets (prices are 1..MaxPrice)
MaxPrice == 2
\* WishlistItem rows ever inserted (primary keys handed out)
MaxWishItems == 2
MaxHeroPk == 2
MaxVersion == 3

Procs == 1..NumProcs
Workers == 1..NumWorkers
\* primary keys of CartItem rows
ItemIds == 1..MaxItems
StockValues == 0..MaxStock
PriceValues == 1..MaxPrice
\* primary keys of WishlistItem rows
WishItemIds == 1..MaxWishItems
HeroPks == 1..MaxHeroPk

(* ------------------------------ catalog ------------------------------- *)
\* the authenticated callers (request.user)
Users == {"u1", "u2"}
\* Product rows: 1 and 2 are active, 3 is inactive; id 0 names no product
Products == {1, 2, 3}
IsActive(p) == p \in {1, 2}
\* ProductSize primary keys: size 1 belongs to product 1, size 2 to product 2;
\* size 3 is the row a replacement of the sizes of product 1 creates; id 0
\* names no size
Sizes == {1, 2, 3}
SizeProduct(s) == IF s = 3 THEN 1 ELSE s

VARIABLES
    stock,   \* ProductSize.quantity of every size (the stock ledger)
    carts,   \* users that have a committed Cart row
    items,   \* committed CartItem rows by primary key
    nextId,  \* next CartItem primary key
    pc,      \* where each handler is
    req,     \* the request each handler serves
    loc,     \* handler-local values: what it read and what it wrote uncommitted
    resp,    \* the response each handler returned
    price,      \* Product.price of every product, in the smallest currency unit
    wishlists,  \* users that have a Wishlist row
    witems,     \* WishlistItem rows by primary key
    wnextId,    \* next WishlistItem primary key
    products,   \* primary keys of the Product rows that exist
    compareAt,  \* Product.compare_at_price of every product; 0 is null
    sizes,      \* primary keys of the ProductSize rows that exist
    heroRows,   \* primary keys of the HomepageHero rows that exist
    hero,       \* the HomepageHero row of pk 1: is_active, and a version that
                \* stands for the rest of its data (every save stores a new one)
    cache       \* cache entry 'homepage_hero': the hero data it holds, or NoCache

vars == <<stock, carts, items, nextId, pc, req, loc, resp,
          price, wishlists, witems, wnextId,
          products, compareAt, sizes, heroRows, hero, cache>>

\* the catalog columns and the homepage state that neither the cart nor the
\* wishlist code writes
site == <<products, compareAt, sizes, heroRows, hero, cache>>

\* the tables no cart mutation writes: Product, the wishlist tables, the site
notCart == <<price, wishlists, witems, wnextId, site>>

\* an unused primary key
NoItem == [cart |-> "none", product |-> 0, size |-> 0, quantity |-> 0]
NoReq == [kind |-> "none", user |-> "none", product_id |-> 0, size_id |-> 0,
          quantity |-> 0, pk |-> 0]
NoLoc == [item |-> 0, newCart |-> FALSE, insert |-> FALSE, ret |-> 0, rows |-> {},
          sizes |-> {}, active |-> FALSE]
\* the HomepageHero table without a row, and the cache without the entry
NoHero == [version |-> 0, is_active |-> FALSE]
NoCache == [version |-> 0, is_active |-> FALSE]
NoResp == [status |-> "none", quantity |-> 0, available |-> 0, held |-> 0]
\* an unused WishlistItem primary key
NoWish == [wishlist |-> "none", product |-> 0]

Response(st, q, a, h) == [status |-> st, quantity |-> q, available |-> a, held |-> h]

RECURSIVE SumOver(_, _)
\* the sum of f[x] over the finite set S
SumOver(f, S) ==
    IF S = {} THEN 0
    ELSE LET x == CHOOSE y \in S : TRUE IN f[x] + SumOver(f, S \ {x})

(* --------------------------- database reads --------------------------- *)
\* CartItem.objects.filter(cart=cart, product=product, product_size=size)
LineItems(u, p, s) ==
    {i \in ItemIds : /\ items[i] # NoItem
                     /\ items[i].cart = u
                     /\ items[i].product = p
                     /\ items[i].size = s}

\* cart.items: the CartItem rows of the Cart of u
CartRows(u) == {i \in ItemIds : items[i] # NoItem /\ items[i].cart = u}

\* existing_qty of AddToCartSerializer.validate: 0 without a cart or a row
ExistingQty(u, p, s) ==
    IF u \in carts /\ LineItems(u, p, s) # {}
    THEN items[CHOOSE i \in LineItems(u, p, s) : TRUE].quantity
    ELSE 0

\* the comparison with existing_qty left out of the total
InsufficientStockMutant(existing, requested, available) == requested > available
\* total_qty > product_size.quantity
InsufficientStock(existing, requested, available) == existing + requested > available

\* get(pk=pk) without the cart__user filter
GetObjectMutant(pk, u) ==
    IF pk \in ItemIds /\ items[pk] # NoItem THEN pk ELSE 0
\* the row get_object returns: pk filtered by cart__user=user
GetObject(pk, u) ==
    IF pk \in ItemIds /\ items[pk] # NoItem /\ items[pk].cart = u THEN pk ELSE 0

\* IsCartOwner.has_object_permission, which check_object_permissions runs on
\* the row get_object found: obj.cart.user == request.user
IsCartOwner(i, u) == items[i].cart = u

(* ------------------------ transactions and locks ---------------------- *)
InTransaction(r) == pc[r] \in {"select_for_update", "write", "commit"}

\* r holds the row lock select_for_update took on CartItem i, or the lock of
\* the DELETE of i that the replacement of a product's sizes has not committed
HoldsRowLock(r, i) ==
    \/ pc[r] \in {"write", "commit"} /\ loc[r].item = i
    \/ pc[r] = "sizes_commit" /\ i \in loc[r].rows

RowLockedByOther(r, i) == \E x \in Procs \ {r} : HoldsRowLock(x, i)

\* r has inserted the Cart of u and not committed: the unique index on
\* Cart.user makes every other insert for u wait
PendingCart(r, u) == InTransaction(r) /\ loc[r].newCart /\ req[r].user = u

\* r has inserted the CartItem (u, p, s) and not committed
PendingItem(r, u, p, s) ==
    /\ pc[r] = "commit" /\ loc[r].insert
    /\ req[r].user = u /\ req[r].product_id = p /\ req[r].size_id = s

\* CartItem without the unique_together constraint
UniqueTogetherMutant(u, p, s) == FALSE
\* unique_together (cart, product, product_size): a committed row has the key
UniqueTogether(u, p, s) == LineItems(u, p, s) # {}

\* cart_item.quantity = quantity: the request overwrites the row
FQuantityPlusMutant(i, quantity) == quantity
\* F('quantity') + quantity, evaluated by the database on the locked row
FQuantityPlus(i, quantity) == items[i].quantity + quantity

\* handlers inside AddToCartSerializer.create
Creating == {r \in Procs : pc[r] \in {"get_or_create", "select_for_update",
                                      "write", "commit"}}

\* every handler that may still insert a row has a primary key left
KeysLeft == nextId + Cardinality(Creating) <= MaxItems

Finish(r, response) ==
    /\ pc' = [pc EXCEPT ![r] = "done"]
    /\ loc' = [loc EXCEPT ![r] = NoLoc]
    /\ resp' = [resp EXCEPT ![r] = response]

(* ------------------------------ AddToCart ----------------------------- *)
\* the validation with no min_value on the quantity field
AddToCartValidationMutant(u, product_id, size_id, quantity) ==
    IF product_id \notin products THEN Response("NotFound", 0, 0, 0)
    ELSE IF ~IsActive(product_id) THEN Response("Inactive", 0, 0, 0)
    ELSE IF size_id \notin sizes THEN Response("NotFound", 0, 0, 0)
    ELSE IF SizeProduct(size_id) # product_id THEN Response("SizeMismatch", 0, 0, 0)
    ELSE IF InsufficientStock(ExistingQty(u, product_id, size_id), quantity,
                              stock[size_id])
         THEN Response("InsufficientStock", 0, stock[size_id],
                       ExistingQty(u, product_id, size_id))
    ELSE Response("valid", 0, 0, 0)
\* AddToCartSerializer.is_valid: the field validators in declaration order,
\* then validate(); "valid" when nothing raised.  The queries of validate()
\* (the size with its stock, the cart, the cart item) are read in one step;
\* what changes between this step and create() is the race the model keeps.
AddToCartValidation(u, product_id, size_id, quantity) ==
    IF product_id \notin products THEN Response("NotFound", 0, 0, 0)
    ELSE IF ~IsActive(product_id) THEN Response("Inactive", 0, 0, 0)
    ELSE IF size_id \notin sizes THEN Response("NotFound", 0, 0, 0)
    ELSE IF quantity < 1 THEN Response("Invalid", 0, 0, 0)
    ELSE IF SizeProduct(size_id) # product_id THEN Response("SizeMismatch", 0, 0, 0)
    ELSE IF InsufficientStock(ExistingQty(u, product_id, size_id), quantity,
                              stock[size_id])
         THEN Response("InsufficientStock", 0, stock[size_id],
                       ExistingQty(u, product_id, size_id))
    ELSE Response("valid", 0, 0, 0)

\* a post that creates the caller's Cart before it validates the request
AddToCartPostMutant(r, u, product_id, size_id, quantity) ==
    /\ pc[r] = "idle"
    /\ req' = [req EXCEPT ![r] = [kind |-> "add", user |-> u,
                                  product_id |-> product_id, size_id |-> size_id,
                                  quantity |-> quantity, pk |-> 0]]
    /\ carts' = carts \cup {u}
    /\ LET v == AddToCartValidation(u, product_id, size_id, quantity)
       IN IF v.status = "valid"
          THEN /\ pc' = [pc EXCEPT ![r] = "get_or_create"]
               /\ UNCHANGED <<loc, resp>>
          ELSE Finish(r, v)
    /\ UNCHANGED <<stock, items, nextId>>
    /\ UNCHANGED notCart
\* AddToCartView.post up to serializer.is_valid(raise_exception=True)
AddToCartPost(r, u, product_id, size_id, quantity) ==
    /\ pc[r] = "idle"
    /\ req' = [req EXCEPT ![r] = [kind |-> "add", user |-> u,
                                  product_id |-> product_id, size_id |-> size_id,
                                  quantity |-> quantity, pk |-> 0]]
    /\ LET v == AddToCartValidation(u, product_id, size_id, quantity)
       IN IF v.status = "valid"
          THEN /\ pc' = [pc EXCEPT ![r] = "get_or_create"]
               /\ UNCHANGED <<loc, resp>>
          ELSE Finish(r, v)
    /\ UNCHANGED <<stock, carts, items, nextId>>
    /\ UNCHANGED notCart

\* get_or_create on a Cart.user without the unique index: no insert waits
GetOrCreateCartMutant(r) ==
    /\ pc[r] = "get_or_create"
    /\ pc' = [pc EXCEPT ![r] = "select_for_update"]
    /\ loc' = [loc EXCEPT ![r].newCart = req[r].user \notin carts]
    /\ UNCHANGED <<stock, carts, items, nextId, req, resp>>
    /\ UNCHANGED notCart
\* create: transaction.atomic() and Cart.objects.get_or_create(user=user).
\* An insert of the same user's Cart by an open transaction makes this one
\* wait on the unique index; once that one commits, the get finds its row.
GetOrCreateCart(r) ==
    /\ pc[r] = "get_or_create"
    /\ \A x \in Procs \ {r} : ~PendingCart(x, req[r].user)
    /\ pc' = [pc EXCEPT ![r] = "select_for_update"]
    /\ loc' = [loc EXCEPT ![r].newCart = req[r].user \notin carts]
    /\ UNCHANGED <<stock, carts, items, nextId, req, resp>>
    /\ UNCHANGED notCart

\* create: select_for_update().filter(cart, product, product_size).first().
\* Locks the row when there is one (waiting for a holder); no row, no lock.
SelectForUpdate(r) ==
    /\ pc[r] = "select_for_update"
    /\ LET rows == IF loc[r].newCart THEN {}
                   ELSE LineItems(req[r].user, req[r].product_id, req[r].size_id)
       IN IF rows = {}
          THEN loc' = [loc EXCEPT ![r].item = 0]
          ELSE \E i \in rows :
                  /\ ~RowLockedByOther(r, i)
                  /\ loc' = [loc EXCEPT ![r].item = i]
    /\ pc' = [pc EXCEPT ![r] = "write"]
    /\ UNCHANGED <<stock, carts, items, nextId, req, resp>>
    /\ UNCHANGED notCart

\* create, `if cart_item:` branch: the F() update and refresh_from_db
AddIncrement(r) ==
    /\ pc[r] = "write"
    /\ loc[r].item # 0
    /\ loc' = [loc EXCEPT ![r].ret =
                  FQuantityPlus(loc[r].item, req[r].quantity)]
    /\ pc' = [pc EXCEPT ![r] = "commit"]
    /\ UNCHANGED <<stock, carts, items, nextId, req, resp>>
    /\ UNCHANGED notCart

\* create, `else:` branch: CartItem.objects.create.  A committed row with the
\* key raises IntegrityError, which nothing catches: the transaction rolls
\* back and the request ends in a server error.  An uncommitted row with the
\* key makes the insert wait.
AddInsert(r) ==
    /\ pc[r] = "write"
    /\ loc[r].item = 0
    /\ \A x \in Procs \ {r} :
          ~PendingItem(x, req[r].user, req[r].product_id, req[r].size_id)
    /\ IF UniqueTogether(req[r].user, req[r].product_id, req[r].size_id)
       THEN Finish(r, Response("IntegrityError", 0, 0, 0))
       ELSE /\ loc' = [loc EXCEPT ![r].insert = TRUE, ![r].ret = req[r].quantity]
            /\ pc' = [pc EXCEPT ![r] = "commit"]
            /\ UNCHANGED resp
    /\ UNCHANGED <<stock, carts, items, nextId, req>>
    /\ UNCHANGED notCart

\* a commit that takes the added quantity off the stock of the size
AddCommitMutant(r) ==
    /\ pc[r] = "commit"
    /\ carts' = IF loc[r].newCart THEN carts \cup {req[r].user} ELSE carts
    /\ IF loc[r].insert
       THEN /\ items' = [items EXCEPT ![nextId] =
                            [cart |-> req[r].user, product |-> req[r].product_id,
                             size |-> req[r].size_id, quantity |-> loc[r].ret]]
            /\ nextId' = nextId + 1
       ELSE /\ items' = [items EXCEPT ![loc[r].item].quantity = loc[r].ret]
            /\ UNCHANGED nextId
    /\ stock' = [stock EXCEPT ![req[r].size_id] =
                    IF @ >= req[r].quantity THEN @ - req[r].quantity ELSE 0]
    /\ Finish(r, Response("Success", loc[r].ret, 0, 0))
    /\ UNCHANGED req
    /\ UNCHANGED notCart
\* a commit with no foreign key from CartItem.product_size to ProductSize
AddCommitNoForeignKeyMutant(r) ==
    /\ pc[r] = "commit"
    /\ carts' = IF loc[r].newCart THEN carts \cup {req[r].user} ELSE carts
    /\ IF loc[r].insert
       THEN /\ items' = [items EXCEPT ![nextId] =
                            [cart |-> req[r].user, product |-> req[r].product_id,
                             size |-> req[r].size_id, quantity |-> loc[r].ret]]
            /\ nextId' = nextId + 1
       ELSE /\ items' = [items EXCEPT ![loc[r].item].quantity = loc[r].ret]
            /\ UNCHANGED nextId
    /\ Finish(r, Response("Success", loc[r].ret, 0, 0))
    /\ UNCHANGED <<stock, req>>
    /\ UNCHANGED notCart
\* leaving transaction.atomic(): the commit, and the 201 response.  The
\* foreign key of CartItem.product_size is checked for an inserted row: when
\* its ProductSize was deleted meanwhile the commit raises IntegrityError,
\* which nothing catches, and the transaction (the new Cart included) is
\* rolled back.
AddCommit(r) ==
    /\ pc[r] = "commit"
    /\ IF loc[r].insert /\ req[r].size_id \notin sizes
       THEN /\ Finish(r, Response("IntegrityError", 0, 0, 0))
            /\ UNCHANGED <<carts, items, nextId>>
       ELSE /\ carts' = IF loc[r].newCart THEN carts \cup {req[r].user} ELSE carts
            /\ IF loc[r].insert
               THEN /\ items' = [items EXCEPT ![nextId] =
                                    [cart |-> req[r].user,
                                     product |-> req[r].product_id,
                                     size |-> req[r].size_id,
                                     quantity |-> loc[r].ret]]
                    /\ nextId' = nextId + 1
               ELSE /\ items' = [items EXCEPT ![loc[r].item].quantity = loc[r].ret]
                    /\ UNCHANGED nextId
            /\ Finish(r, Response("Success", loc[r].ret, 0, 0))
    /\ UNCHANGED <<stock, req>>
    /\ UNCHANGED notCart

(* ---------------------------- UpdateCartItem -------------------------- *)
\* UpdateCartItemSerializer without validate_quantity
UpdateValidationMutant(i, quantity) ==
    IF quantity < 1 THEN Response("Invalid", 0, 0, 0) ELSE Response("valid", 0, 0, 0)
\* UpdateCartItemSerializer: min_value=1, then validate_quantity against the
\* product_size that get_object loaded with the row
UpdateValidation(i, quantity) ==
    IF quantity < 1 THEN Response("Invalid", 0, 0, 0)
    ELSE IF quantity > stock[items[i].size]
         THEN Response("InsufficientStock", 0, stock[items[i].size], 0)
    ELSE Response("valid", 0, 0, 0)

\* CartItemDetailView.put up to serializer.is_valid(raise_exception=True)
CartItemPut(r, u, pk, quantity) ==
    /\ pc[r] = "idle"
    /\ req' = [req EXCEPT ![r] = [kind |-> "put", user |-> u, product_id |-> 0,
                                  size_id |-> 0, quantity |-> quantity, pk |-> pk]]
    /\ IF GetObject(pk, u) = 0
       THEN Finish(r, Response("NotFound", 0, 0, 0))
       ELSE IF ~IsCartOwner(GetObject(pk, u), u)
       THEN Finish(r, Response("PermissionDenied", 0, 0, 0))
       ELSE LET v == UpdateValidation(pk, quantity)
            IN IF v.status = "valid"
               THEN /\ pc' = [pc EXCEPT ![r] = "put_save"]
                    /\ UNCHANGED <<loc, resp>>
               ELSE Finish(r, v)
    /\ UNCHANGED <<stock, carts, items, nextId>>
    /\ UNCHANGED notCart

\* a put that calls save() without update_fields: an UPDATE that affects no
\* row is followed by an INSERT of the instance get_object loaded
CartItemPutSaveMutant(r) ==
    /\ pc[r] = "put_save"
    /\ ~RowLockedByOther(r, req[r].pk)
    /\ items' = [items EXCEPT ![req[r].pk] =
                    IF items[req[r].pk] = NoItem
                    THEN [cart |-> req[r].user, product |-> 1, size |-> 1,
                          quantity |-> req[r].quantity]
                    ELSE [items[req[r].pk] EXCEPT !.quantity = req[r].quantity]]
    /\ Finish(r, Response("Success", req[r].quantity, 0, 0))
    /\ UNCHANGED <<stock, carts, nextId, req>>
    /\ UNCHANGED notCart
\* put: cart_item.quantity = ...; cart_item.save(update_fields=[...]).
\* The UPDATE waits for a row lock; a row deleted meanwhile makes save()
\* raise DatabaseError (no row affected), which nothing catches.
CartItemPutSave(r) ==
    /\ pc[r] = "put_save"
    /\ ~RowLockedByOther(r, req[r].pk)
    /\ IF items[req[r].pk] = NoItem
       THEN /\ Finish(r, Response("DatabaseError", 0, 0, 0))
            /\ UNCHANGED items
       ELSE /\ items' = [items EXCEPT ![req[r].pk].quantity = req[r].quantity]
            /\ Finish(r, Response("Success", req[r].quantity, 0, 0))
    /\ UNCHANGED <<stock, carts, nextId, req>>
    /\ UNCHANGED notCart

(* ---------------------------- RemoveCartItem -------------------------- *)
\* a delete that answers 204 when get_object found no row
DeleteMissingMutant == Response("Success", 0, 0, 0)
\* the response of delete when get_object found no row: 404
DeleteMissing == Response("NotFound", 0, 0, 0)

\* a delete that looks the row up by pk alone and checks no permission
CartItemDeleteMutant(r, u, pk) ==
    /\ pc[r] = "idle"
    /\ req' = [req EXCEPT ![r] = [kind |-> "delete", user |-> u, product_id |-> 0,
                                  size_id |-> 0, quantity |-> 0, pk |-> pk]]
    /\ IF items[pk] = NoItem
       THEN Finish(r, DeleteMissing)
       ELSE /\ pc' = [pc EXCEPT ![r] = "delete_row"]
            /\ UNCHANGED <<loc, resp>>
    /\ UNCHANGED <<stock, carts, items, nextId>>
    /\ UNCHANGED notCart
\* CartItemDetailView.delete up to the `if cart_item is None` return
CartItemDelete(r, u, pk) ==
    /\ pc[r] = "idle"
    /\ req' = [req EXCEPT ![r] = [kind |-> "delete", user |-> u, product_id |-> 0,
                                  size_id |-> 0, quantity |-> 0, pk |-> pk]]
    /\ IF GetObject(pk, u) = 0
       THEN Finish(r, DeleteMissing)
       ELSE IF ~IsCartOwner(GetObject(pk, u), u)
       THEN Finish(r, Response("PermissionDenied", 0, 0, 0))
       ELSE /\ pc' = [pc EXCEPT ![r] = "delete_row"]
            /\ UNCHANGED <<loc, resp>>
    /\ UNCHANGED <<stock, carts, items, nextId>>
    /\ UNCHANGED notCart

\* a delete that also deletes the Cart once its last row is gone
CartItemDeleteRowMutant(r) ==
    /\ pc[r] = "delete_row"
    /\ ~RowLockedByOther(r, req[r].pk)
    /\ items' = [items EXCEPT ![req[r].pk] = NoItem]
    /\ carts' = IF CartRows(req[r].user) \subseteq {req[r].pk}
                THEN carts \ {req[r].user} ELSE carts
    /\ Finish(r, Response("Success", 0, 0, 0))
    /\ UNCHANGED <<stock, nextId, req>>
    /\ UNCHANGED notCart
\* delete: cart_item.delete() and the 204 response.  The DELETE waits for a
\* row lock; deleting a row that is already gone deletes nothing.
CartItemDeleteRow(r) ==
    /\ pc[r] = "delete_row"
    /\ ~RowLockedByOther(r, req[r].pk)
    /\ items' = [items EXCEPT ![req[r].pk] = NoItem]
    /\ Finish(r, Response("Success", 0, 0, 0))
    /\ UNCHANGED <<stock, carts, nextId, req>>
    /\ UNCHANGED notCart

(* -------------------------------- GetCart ----------------------------- *)
\* a subtotal that leaves the quantity out
SubtotalMutant(i) == price[items[i].product]
\* CartItem.subtotal: self.product.price * self.quantity
Subtotal(i) == price[items[i].product] * items[i].quantity

\* Cart.total: sum(item.subtotal for item in self.items.select_related(
\* 'product')), one query that joins every row with its product as it is now
Total(u) == SumOver([i \in ItemIds |-> Subtotal(i)], CartRows(u))

\* the body CartView.get returns when the user has no Cart ('0.00' is the
\* amount zero)
EmptyCart ==
    [status |-> "Success", id |-> "None", items |-> {}, cart_total |-> 0,
     item_count |-> 0]

\* CartReadSerializer(cart).data: the prefetched rows, the total (str() of the
\* amount) and items.count(), which counts the prefetched rows
CartData(u, rows, total) ==
    [status |-> "Success", id |-> u, items |-> rows, cart_total |-> total,
     item_count |-> Cardinality(rows)]

\* a get that creates the missing Cart (get_or_create in place of get)
CartGetMutant(r, u) ==
    /\ pc[r] = "idle"
    /\ req' = [req EXCEPT ![r] = [kind |-> "get", user |-> u, product_id |-> 0,
                                  size_id |-> 0, quantity |-> 0, pk |-> 0]]
    /\ carts' = carts \cup {u}
    /\ pc' = [pc EXCEPT ![r] = "get_total"]
    /\ loc' = [loc EXCEPT ![r].rows = CartRows(u)]
    /\ UNCHANGED <<stock, items, nextId, resp>>
    /\ UNCHANGED notCart
\* CartView.get up to the serializer: Cart.objects.prefetch_related(...).get(
\* user=request.user) reads the Cart and its rows; without a Cart the empty
\* structure is returned
CartGet(r, u) ==
    /\ pc[r] = "idle"
    /\ req' = [req EXCEPT ![r] = [kind |-> "get", user |-> u, product_id |-> 0,
                                  size_id |-> 0, quantity |-> 0, pk |-> 0]]
    /\ IF u \notin carts
       THEN Finish(r, EmptyCart)
       ELSE /\ pc' = [pc EXCEPT ![r] = "get_total"]
            /\ loc' = [loc EXCEPT ![r].rows = CartRows(u)]
            /\ UNCHANGED resp
    /\ UNCHANGED <<stock, carts, items, nextId>>
    /\ UNCHANGED notCart

\* get: Response(serializer.data); get_cart_total queries the rows again
CartGetTotal(r) ==
    /\ pc[r] = "get_total"
    /\ Finish(r, CartData(req[r].user, loc[r].rows, Total(req[r].user)))
    /\ UNCHANGED <<stock, carts, items, nextId, req>>
    /\ UNCHANGED notCart

(* ------------------------------- wishlist ----------------------------- *)
\* WishlistItem.objects.filter(wishlist=wishlist, product=product)
WishRows(u, p) ==
    {i \in WishItemIds : /\ witems[i] # NoWish
                         /\ witems[i].wishlist = u
                         /\ witems[i].product = p}

\* WishlistItem without the unique_together constraint
WishlistUniqueTogetherMutant(u, p) == FALSE
\* unique_together (wishlist, product): a row has the key
WishlistUniqueTogether(u, p) == WishRows(u, p) # {}

\* AddToWishlistSerializer.validate_product_id: the product, then the
\* duplicate check when the user has a Wishlist
AddToWishlistValidation(u, product_id) ==
    IF product_id \notin products THEN Response("NotFound", 0, 0, 0)
    ELSE IF ~IsActive(product_id) THEN Response("Inactive", 0, 0, 0)
    ELSE IF u \in wishlists /\ WishRows(u, product_id) # {}
         THEN Response("Duplicate", 0, 0, 0)
    ELSE Response("valid", 0, 0, 0)

\* WishlistItemReadSerializer(wishlist_item).data
WishlistItemData(i, product_id) ==
    [status |-> "Success", id |-> i, product_id |-> product_id]

\* AddToWishlistView.post up to serializer.is_valid(raise_exception=True)
AddToWishlistPost(r, u, product_id) ==
    /\ pc[r] = "idle"
    /\ req' = [req EXCEPT ![r] = [kind |-> "wadd", user |-> u,
                                  product_id |-> product_id, size_id |-> 0,
                                  quantity |-> 0, pk |-> 0]]
    /\ LET v == AddToWishlistValidation(u, product_id)
       IN IF v.status = "valid"
          THEN /\ pc' = [pc EXCEPT ![r] = "w_get_or_create"]
               /\ UNCHANGED <<loc, resp>>
          ELSE Finish(r, v)
    /\ UNCHANGED <<stock, carts, items, nextId>>
    /\ UNCHANGED notCart

\* create: Wishlist.objects.get_or_create(user=user).  No transaction is open:
\* the Wishlist row is committed by this statement.
WishlistGetOrCreate(r) ==
    /\ pc[r] = "w_get_or_create"
    /\ wishlists' = wishlists \cup {req[r].user}
    /\ pc' = [pc EXCEPT ![r] = "w_create"]
    /\ UNCHANGED <<stock, carts, items, nextId, req, loc, resp>>
    /\ UNCHANGED <<price, witems, wnextId>>
    /\ UNCHANGED site

\* create: WishlistItem.objects.create(wishlist, product) and the 201
\* response.  A row with the key raises IntegrityError, which nothing catches:
\* the request ends in a server error.
WishlistCreate(r) ==
    /\ pc[r] = "w_create"
    /\ IF WishlistUniqueTogether(req[r].user, req[r].product_id)
       THEN /\ Finish(r, Response("IntegrityError", 0, 0, 0))
            /\ UNCHANGED <<witems, wnextId>>
       ELSE /\ witems' = [witems EXCEPT ![wnextId] =
                              [wishlist |-> req[r].user,
                               product |-> req[r].product_id]]
            /\ wnextId' = wnextId + 1
            /\ Finish(r, WishlistItemData(wnextId, req[r].product_id))
    /\ UNCHANGED <<stock, carts, items, nextId, req>>
    /\ UNCHANGED <<price, wishlists>>
    /\ UNCHANGED site

\* get(pk=pk) without the wishlist__user filter
WishlistGetObjectMutant(pk, u) ==
    IF pk \in WishItemIds /\ witems[pk] # NoWish THEN pk ELSE 0
\* WishlistItemDetailView.get_object: pk filtered by wishlist__user=user
WishlistGetObject(pk, u) ==
    IF pk \in WishItemIds /\ witems[pk] # NoWish /\ witems[pk].wishlist = u
    THEN pk ELSE 0

\* IsWishlistOwner.has_object_permission: obj.wishlist.user == request.user
IsWishlistOwner(i, u) == witems[i].wishlist = u

\* a delete that answers 204 when get_object found no row
WishlistItemDeleteMutant(r, u, pk) ==
    /\ pc[r] = "idle"
    /\ req' = [req EXCEPT ![r] = [kind |-> "wdelete", user |-> u, product_id |-> 0,
                                  size_id |-> 0, quantity |-> 0, pk |-> pk]]
    /\ IF WishlistGetObject(pk, u) = 0
       THEN Finish(r, Response("Success", 0, 0, 0))
       ELSE /\ pc' = [pc EXCEPT ![r] = "w_delete_row"]
            /\ UNCHANGED <<loc, resp>>
    /\ UNCHANGED <<stock, carts, items, nextId>>
    /\ UNCHANGED notCart
\* WishlistItemDetailView.delete up to the `if wishlist_item is None` return
WishlistItemDelete(r, u, pk) ==
    /\ pc[r] = "idle"
    /\ req' = [req EXCEPT ![r] = [kind |-> "wdelete", user |-> u, product_id |-> 0,
                                  size_id |-> 0, quantity |-> 0, pk |-> pk]]
    /\ IF WishlistGetObject(pk, u) = 0
       THEN Finish(r, Response("NotFound", 0, 0, 0))
       ELSE IF ~IsWishlistOwner(WishlistGetObject(pk, u), u)
       THEN Finish(r, Response("PermissionDenied", 0, 0, 0))
       ELSE /\ pc' = [pc EXCEPT ![r] = "w_delete_row"]
            /\ UNCHANGED <<loc, resp>>
    /\ UNCHANGED <<stock, carts, items, nextId>>
    /\ UNCHANGED notCart

\* delete: wishlist_item.delete() and the 204 response; deleting a row that
\* is already gone deletes nothing
WishlistItemDeleteRow(r) ==
    /\ pc[r] = "w_delete_row"
    /\ witems' = [witems EXCEPT ![req[r].pk] = NoWish]
    /\ Finish(r, Response("Success", 0, 0, 0))
    /\ UNCHANGED <<stock, carts, items, nextId, req>>
    /\ UNCHANGED <<price, wishlists, wnextId>>
    /\ UNCHANGED site

\* handlers inside AddToWishlistSerializer.create
WishCreating == {r \in Procs : pc[r] \in {"w_get_or_create", "w_create"}}

\* every handler that may still insert a WishlistItem has a primary key left
WishKeysLeft == wnextId + Cardinality(WishCreating) <= MaxWishItems

(* ------------------------------- handlers ----------------------------- *)
\* the Response is returned and the worker takes the next request
Respond(r) ==
    /\ pc[r] = "done"
    /\ pc' = [pc EXCEPT ![r] = "idle"]
    /\ req' = [req EXCEPT ![r] = NoReq]
    /\ resp' = [resp EXCEPT ![r] = NoResp]
    /\ UNCHANGED <<stock, carts, items, nextId, loc>>
    /\ UNCHANGED notCart

(* ----------------------------- stock ledger --------------------------- *)
\* ProductSize.quantity is written outside the cart code (admin, catalog)
SetStock(s, v) ==
    /\ stock[s] # v
    /\ stock' = [stock EXCEPT ![s] = v]
    /\ UNCHANGED <<carts, items, nextId, pc, req, loc, resp>>
    /\ UNCHANGED notCart

(* -------------------------------- catalog ----------------------------- *)
\* Product.price is written by the catalog (ProductUpdateSerializer.update)
SetPrice(p, v) ==
    /\ price[p] # v
    /\ price' = [price EXCEPT ![p] = v]
    /\ UNCHANGED <<stock, carts, items, nextId, pc, req, loc, resp>>
    /\ UNCHANGED <<wishlists, witems, wnextId>>
    /\ UNCHANGED site

\* the fields of the request body the model keeps: has_price and has_compare
\* tell whether 'price' and 'compare_at_price' are in the data (a partial
\* update may leave either out), compare_at_price 0 is an explicit null,
\* has_sizes tells whether 'sizes' is in the data and size_quantity is the
\* quantity of the one size it lists
ProductData(hp, pr, hc, cp, hs, q) ==
    [has_price |-> hp, price |-> pr, has_compare |-> hc, compare_at_price |-> cp,
     has_sizes |-> hs, size_quantity |-> q]

\* ProductCreateSerializer.validate: data.get('price'), which the required
\* field always gives, and data.get('compare_at_price'), None when absent
ProductCreateValidation(data) ==
    LET compare_at_price == IF data.has_compare THEN data.compare_at_price ELSE 0
    IN IF compare_at_price # 0 /\ compare_at_price < data.price
       THEN "Invalid" ELSE "valid"

\* ProductCreateSerializer on valid data: create() inserts the Product under
\* the next primary key with the price and the compare price of the data
\* (null when absent).  Data that validate() rejects changes nothing.
ProductCreate(data) ==
    /\ ProductCreateValidation(data) = "valid"
    /\ products # Products
    /\ LET p == Cardinality(products) + 1
       IN /\ products' = products \cup {p}
          /\ price' = [price EXCEPT ![p] = data.price]
          /\ compareAt' = [compareAt EXCEPT ![p] =
                              IF data.has_compare THEN data.compare_at_price ELSE 0]
    /\ UNCHANGED <<stock, carts, items, nextId, pc, req, loc, resp>>
    /\ UNCHANGED <<wishlists, witems, wnextId>>
    /\ UNCHANGED <<sizes, heroRows, hero, cache>>

\* ProductUpdateSerializer.validate: the price of the data or else of the
\* instance, and data.get('compare_at_price'): None when the data leaves it
\* out, whatever the instance stores
ProductUpdateValidation(p, data) ==
    LET new_price == IF data.has_price THEN data.price ELSE price[p]
        compare_at_price == IF data.has_compare THEN data.compare_at_price ELSE 0
    IN IF compare_at_price # 0 /\ compare_at_price < new_price
       THEN "Invalid" ELSE "valid"

\* primary keys a ProductSize of product p can still be created under: keys
\* grow, so one above every key in use
UnusedSizes(p) ==
    {s \in Sizes : SizeProduct(s) = p /\ \A t \in sizes : t < s}

\* handlers replacing the sizes of a product
Replacing == {r \in Procs : pc[r] \in {"sizes_collect", "sizes_delete",
                                        "sizes_commit", "sizes_create"}}

\* ProductUpdateSerializer: is_valid, then update() up to instance.save(),
\* which writes the fields of the data over the instance.  Without 'sizes'
\* in the data the update is complete.
ProductUpdate(r, p, data) ==
    /\ pc[r] = "idle"
    /\ p \in products
    /\ data.has_sizes => (UnusedSizes(p) # {} /\ Replacing = {})
    /\ req' = [req EXCEPT ![r] = [kind |-> "product_update", user |-> "none",
                                  product_id |-> p, size_id |-> 0,
                                  quantity |-> data.size_quantity, pk |-> 0]]
    /\ IF ProductUpdateValidation(p, data) # "valid"
       THEN /\ Finish(r, Response("Invalid", 0, 0, 0))
            /\ UNCHANGED <<price, compareAt>>
       ELSE /\ price' = [price EXCEPT ![p] =
                            IF data.has_price THEN data.price ELSE @]
            /\ compareAt' = [compareAt EXCEPT ![p] =
                                IF data.has_compare THEN data.compare_at_price ELSE @]
            /\ IF data.has_sizes
               THEN /\ pc' = [pc EXCEPT ![r] = "sizes_collect"]
                    /\ UNCHANGED <<loc, resp>>
               ELSE Finish(r, Response("Success", 0, 0, 0))
    /\ UNCHANGED <<stock, carts, items, nextId>>
    /\ UNCHANGED <<wishlists, witems, wnextId>>
    /\ UNCHANGED <<products, sizes, heroRows, hero, cache>>

\* update: instance.sizes.all().delete(), the collection: the ProductSize
\* rows of the product are read; the CartItem rows that reference them are
\* left to one DELETE ... WHERE product_size_id IN (...)
SizesCollect(r) ==
    /\ pc[r] = "sizes_collect"
    /\ loc' = [loc EXCEPT ![r].sizes =
                  {s \in sizes : SizeProduct(s) = req[r].product_id}]
    /\ pc' = [pc EXCEPT ![r] = "sizes_delete"]
    /\ UNCHANGED <<stock, carts, items, nextId, req, resp>>
    /\ UNCHANGED notCart

\* the committed CartItem rows whose product_size is in S
ReferencingItems(S) == {i \in ItemIds : items[i] # NoItem /\ items[i].size \in S}

\* delete(), inside its transaction: the cascade, DELETE FROM CartItem WHERE
\* product_size_id IN (...).  It waits for the row locks of other
\* transactions and keeps the deleted rows locked until the commit.
SizesDelete(r) ==
    /\ pc[r] = "sizes_delete"
    /\ \A i \in ReferencingItems(loc[r].sizes) : ~RowLockedByOther(r, i)
    /\ loc' = [loc EXCEPT ![r].rows = ReferencingItems(loc[r].sizes)]
    /\ pc' = [pc EXCEPT ![r] = "sizes_commit"]
    /\ UNCHANGED <<stock, carts, items, nextId, req, resp>>
    /\ UNCHANGED notCart

\* delete(): DELETE FROM ProductSize and the commit.  A CartItem committed
\* since the cascade still references a deleted size: the foreign key raises
\* IntegrityError, the deletes are rolled back and update() ends there, with
\* the product fields already saved.
SizesCommit(r) ==
    /\ pc[r] = "sizes_commit"
    /\ IF ReferencingItems(loc[r].sizes) \subseteq loc[r].rows
       THEN /\ items' = [i \in ItemIds |->
                            IF i \in loc[r].rows THEN NoItem ELSE items[i]]
            /\ sizes' = sizes \ loc[r].sizes
            /\ pc' = [pc EXCEPT ![r] = "sizes_create"]
            /\ UNCHANGED <<loc, resp>>
       ELSE /\ Finish(r, Response("IntegrityError", 0, 0, 0))
            /\ UNCHANGED <<items, sizes>>
    /\ UNCHANGED <<stock, carts, nextId, req>>
    /\ UNCHANGED <<price, wishlists, witems, wnextId>>
    /\ UNCHANGED <<products, compareAt, heroRows, hero, cache>>

\* update: ProductSize.objects.create(product=instance, **size_data) for
\* the size of the data, under a new primary key
SizesCreate(r) ==
    /\ pc[r] = "sizes_create"
    /\ LET s == CHOOSE t \in UnusedSizes(req[r].product_id) :
                    \A x \in UnusedSizes(req[r].product_id) : t <= x
       IN /\ sizes' = sizes \cup {s}
          /\ stock' = [stock EXCEPT ![s] = req[r].quantity]
    /\ Finish(r, Response("Success", 0, 0, 0))
    /\ UNCHANGED <<carts, items, nextId, req>>
    /\ UNCHANGED <<price, wishlists, witems, wnextId>>
    /\ UNCHANGED <<products, compareAt, heroRows, hero, cache>>

(* ------------------------------- homepage ----------------------------- *)
\* everything but the HomepageHero table, the cache and the handlers
notHero == <<stock, carts, items, nextId, price, wishlists, witems, wnextId,
             products, compareAt, sizes>>

\* HomepageHeroSerializer(hero).data
HeroData(version, is_active) ==
    [status |-> "Success", version |-> version, is_active |-> is_active]

\* handlers between the start of a save() and its super().save()
Saving == {r \in Procs : pc[r] = "hero_save"}

\* a version is left for every save that may still store one
VersionsLeft == hero.version + Cardinality(Saving) < MaxVersion

\* HomepageHero(pk=k, is_active=active).save(), called on an instance of any
\* primary key (0: none): the call, up to super().save()
HeroSave(r, k, active) ==
    /\ pc[r] = "idle"
    /\ VersionsLeft
    /\ req' = [req EXCEPT ![r] = [kind |-> "hero_save", user |-> "none",
                                  product_id |-> 0, size_id |-> 0,
                                  quantity |-> 0, pk |-> k]]
    /\ loc' = [loc EXCEPT ![r].active = active]
    /\ pc' = [pc EXCEPT ![r] = "hero_save"]
    /\ UNCHANGED <<resp, heroRows, hero, cache>>
    /\ UNCHANGED notHero

\* a save() that keeps the primary key of the instance (a new one without)
HeroSuperSaveMutant(r) ==
    /\ pc[r] = "hero_save"
    /\ LET k == IF req[r].pk = 0
                THEN CHOOSE x \in HeroPks : x \notin heroRows \/ x = MaxHeroPk
                ELSE req[r].pk
       IN /\ heroRows' = heroRows \cup {k}
          /\ hero' = IF k = 1
                     THEN [version |-> hero.version + 1, is_active |-> loc[r].active]
                     ELSE hero
    /\ loc' = [loc EXCEPT ![r].ret = hero.version + 1]
    /\ pc' = [pc EXCEPT ![r] = "hero_cache_delete"]
    /\ UNCHANGED <<req, resp, cache>>
    /\ UNCHANGED notHero
\* save: self.pk = 1; super().save(): the row of pk 1 is updated, or
\* inserted when there is none
HeroSuperSave(r) ==
    /\ pc[r] = "hero_save"
    /\ heroRows' = heroRows \cup {1}
    /\ hero' = [version |-> hero.version + 1, is_active |-> loc[r].active]
    /\ loc' = [loc EXCEPT ![r].ret = hero.version + 1]
    /\ pc' = [pc EXCEPT ![r] = "hero_cache_delete"]
    /\ UNCHANGED <<req, resp, cache>>
    /\ UNCHANGED notHero

\* save: cache.delete('homepage_hero'), and the return (of put: the 200
\* response with the data of the instance)
HeroCacheDelete(r) ==
    /\ pc[r] = "hero_cache_delete"
    /\ cache' = NoCache
    /\ Finish(r, HeroData(loc[r].ret, loc[r].active))
    /\ UNCHANGED <<req, heroRows, hero>>
    /\ UNCHANGED notHero

\* HomepageHero.delete(): pass
HeroDelete(r) ==
    /\ pc[r] = "idle"
    /\ req' = [req EXCEPT ![r] = [kind |-> "hero_delete", user |-> "none",
                                  product_id |-> 0, size_id |-> 0,
                                  quantity |-> 0, pk |-> 1]]
    /\ Finish(r, Response("Success", 0, 0, 0))
    /\ UNCHANGED <<heroRows, hero, cache>>
    /\ UNCHANGED notHero

\* the row get_or_create(pk=1) inserts when there is none: the defaults of
\* the model (is_active=True), saved through save(), which also deletes the
\* cache entry
HeroGetOrCreate ==
    /\ heroRows' = heroRows \cup {1}
    /\ hero' = IF 1 \in heroRows THEN hero
               ELSE [version |-> hero.version + 1, is_active |-> TRUE]
    /\ cache' = IF 1 \in heroRows THEN cache ELSE NoCache

\* HomepageHero.load()
HeroLoad(r) ==
    /\ pc[r] = "idle"
    /\ VersionsLeft
    /\ req' = [req EXCEPT ![r] = [kind |-> "hero_load", user |-> "none",
                                  product_id |-> 0, size_id |-> 0,
                                  quantity |-> 0, pk |-> 1]]
    /\ HeroGetOrCreate
    /\ Finish(r, Response("Success", 0, 0, 0))
    /\ UNCHANGED notHero

\* HomepageHeroView.put up to serializer.save(): the row of pk 1 is read, or
\* created by load(); data that is not valid ends in 400; a partial update
\* without is_active keeps the value of the instance
HeroPut(r, valid, has_is_active, is_active) ==
    /\ pc[r] = "idle"
    /\ VersionsLeft
    /\ req' = [req EXCEPT ![r] = [kind |-> "hero_put", user |-> "none",
                                  product_id |-> 0, size_id |-> 0,
                                  quantity |-> 0, pk |-> 1]]
    /\ HeroGetOrCreate
    /\ IF valid
       THEN /\ loc' = [loc EXCEPT ![r].active =
                          IF has_is_active THEN is_active ELSE hero'.is_active]
            /\ pc' = [pc EXCEPT ![r] = "hero_save"]
            /\ UNCHANGED resp
       ELSE Finish(r, Response("Invalid", 0, 0, 0))
    /\ UNCHANGED notHero

\* HomepageHeroView.get: cache.get('homepage_hero') and the two returns on a
\* hit; on a miss the handler goes on to the database
HeroGet(r) ==
    /\ pc[r] = "idle"
    /\ req' = [req EXCEPT ![r] = [kind |-> "hero_get", user |-> "none",
                                  product_id |-> 0, size_id |-> 0,
                                  quantity |-> 0, pk |-> 1]]
    /\ IF cache # NoCache
       THEN IF ~cache.is_active
            THEN Finish(r, Response("NotFound", 0, 0, 0))
            ELSE Finish(r, HeroData(cache.version, cache.is_active))
       ELSE /\ pc' = [pc EXCEPT ![r] = "hero_db_get"]
            /\ UNCHANGED <<loc, resp>>
    /\ UNCHANGED <<heroRows, hero, cache>>
    /\ UNCHANGED notHero

\* get: HomepageHero.objects.get(pk=1), the two 404 returns, and the
\* serializer data of an active hero
HeroDbGet(r) ==
    /\ pc[r] = "hero_db_get"
    /\ IF 1 \notin heroRows \/ ~hero.is_active
       THEN Finish(r, Response("NotFound", 0, 0, 0))
       ELSE /\ loc' = [loc EXCEPT ![r].ret = hero.version,
                                  ![r].active = hero.is_active]
            /\ pc' = [pc EXCEPT ![r] = "hero_cache_set"]
            /\ UNCHANGED resp
    /\ UNCHANGED <<req, heroRows, hero, cache>>
    /\ UNCHANGED notHero

\* get: cache.set('homepage_hero', data, 300) and the response
HeroCacheSet(r) ==
    /\ pc[r] = "hero_cache_set"
    /\ cache' = [version |-> loc[r].ret, is_active |-> loc[r].active]
    /\ Finish(r, HeroData(loc[r].ret, loc[r].active))
    /\ UNCHANGED <<req, heroRows, hero>>
    /\ UNCHANGED notHero

\* the cache entry expires, 300 seconds after it was set
CacheExpire ==
    /\ cache # NoCache
    /\ cache' = NoCache
    /\ UNCHANGED <<pc, req, loc, resp, heroRows, hero>>
    /\ UNCHANGED notHero

(* ---------------------------- specifications -------------------------- *)
QtyInputs == 0..MaxQty

TypeOK ==
    /\ stock \in [Sizes -> StockValues]
    /\ carts \subseteq Users
    /\ nextId \in 1..(MaxItems + 1)
    /\ \A r \in Procs : pc[r] \in {"idle", "get_or_create", "select_for_update",
                                   "write", "commit", "put_save", "delete_row",
                                   "get_total", "w_get_or_create", "w_create",
                                   "w_delete_row", "sizes_collect",
                                   "sizes_delete", "sizes_commit", "sizes_create",
                                   "hero_save", "hero_cache_delete",
                                   "hero_db_get", "hero_cache_set", "done"}
    /\ price \in [Products -> PriceValues]
    /\ wishlists \subseteq Users
    /\ wnextId \in 1..(MaxWishItems + 1)
    /\ products \subseteq Products
    /\ compareAt \in [Products -> {0} \cup PriceValues]
    /\ sizes \subseteq Sizes
    /\ heroRows \subseteq HeroPks
    /\ hero \in [version : 0..MaxVersion, is_active : BOOLEAN]
    /\ cache \in [version : 0..MaxVersion, is_active : BOOLEAN]

\* the catalog with every product at the lowest price and without a compare
\* price, the sizes 1 and 2, no wishlist, no homepage hero and an empty cache
InitNotCart ==
    /\ price = [p \in Products |-> 1]
    /\ wishlists = {}
    /\ witems = [i \in WishItemIds |-> NoWish]
    /\ wnextId = 1
    /\ products = Products
    /\ compareAt = [p \in Products |-> 0]
    /\ sizes = {1, 2}
    /\ heroRows = {}
    /\ hero = NoHero
    /\ cache = NoCache

\* The database with the catalog loaded and no cart item.  The caller may
\* already own a Cart: it is created by the first add and outlives its items.
Init ==
    /\ stock = [s \in Sizes |-> MaxStock]
    /\ carts \in SUBSET {"u1"}
    /\ items = [i \in ItemIds |-> NoItem]
    /\ nextId = 1
    /\ pc = [r \in Procs |-> "idle"]
    /\ req = [r \in Procs |-> NoReq]
    /\ loc = [r \in Procs |-> NoLoc]
    /\ resp = [r \in Procs |-> NoResp]
    /\ InitNotCart

\* requests that reach every outcome of AddToCart: the two lines (1, 1) and
\* (2, 2), a missing product, an inactive one, a missing size, a size of
\* another product
AddInputs ==
    {<<1, 1, q>> : q \in QtyInputs} \cup
    {<<2, 2, 1>>, <<0, 1, 1>>, <<3, 1, 1>>, <<1, 0, 1>>, <<1, 2, 1>>}

Next ==
    \/ \E r \in Workers, d \in AddInputs :
          KeysLeft /\ AddToCartPost(r, "u1", d[1], d[2], d[3])
    \/ \E r \in Workers : GetOrCreateCart(r)
    \/ \E r \in Workers : SelectForUpdate(r)
    \/ \E r \in Workers : AddIncrement(r)
    \/ \E r \in Workers : AddInsert(r)
    \/ \E r \in Workers : AddCommit(r)
    \/ \E r \in Workers, pk \in ItemIds, q \in QtyInputs :
          CartItemPut(r, "u1", pk, q)
    \/ \E r \in Workers : CartItemPutSave(r)
    \/ \E r \in Workers, pk \in ItemIds : CartItemDelete(r, "u1", pk)
    \/ \E r \in Workers : CartItemDeleteRow(r)
    \/ \E r \in Workers : Respond(r)
    \/ \E v \in StockValues : SetStock(1, v)

Spec == Init /\ [][Next]_vars

\* no request is in flight
Quiescent == \A r \in Procs : pc[r] \in {"idle", "done"}

\* r has answered a request of this kind
Answered(r, kind) == pc[r] = "done" /\ req[r].kind = kind

(* Concurrent AddToCart calls of one user on the line (product 1, size 1),  *)
(* the stock of the line fixed at any value; every handler serves one call  *)
(* and keeps its response.                                                  *)
InitAdd ==
    /\ \E a \in StockValues : stock = [s \in Sizes |-> a]
    /\ carts \in SUBSET {"u1"}
    /\ items = [i \in ItemIds |-> NoItem]
    /\ nextId = 1
    /\ pc = [r \in Procs |-> "idle"]
    /\ req = [r \in Procs |-> NoReq]
    /\ loc = [r \in Procs |-> NoLoc]
    /\ resp = [r \in Procs |-> NoResp]
    /\ InitNotCart

AddStep(r) ==
    \/ \E q \in 1..MaxQty : AddToCartPost(r, "u1", 1, 1, q)
    \/ GetOrCreateCart(r)
    \/ SelectForUpdate(r)
    \/ AddIncrement(r)
    \/ AddInsert(r)
    \/ AddCommit(r)

NextAdd == \E r \in Procs : AddStep(r)

SpecAdd == InitAdd /\ [][NextAdd]_vars

(* The same calls, one after the other: a call starts when no other is in  *)
(* flight.                                                                  *)
NextSeq == \E r \in Procs : (\A x \in Procs \ {r} : pc[x] \in {"idle", "done"}) /\ AddStep(r)

SpecSeq == InitAdd /\ [][NextSeq]_vars

(* One UpdateCartItem and AddToCart calls on a line item that is already in *)
(* the cart, the stock of the line fixed; every handler serves one call.    *)
InitPutAdd ==
    /\ \E a \in HeldAtStart..MaxStock : stock = [s \in Sizes |-> a]
    /\ carts = {"u1"}
    /\ items = [i \in ItemIds |->
                  IF i = 1 THEN [cart |-> "u1", product |-> 1, size |-> 1,
                                 quantity |-> HeldAtStart]
                  ELSE NoItem]
    /\ nextId = 2
    /\ pc = [r \in Procs |-> "idle"]
    /\ req = [r \in Procs |-> NoReq]
    /\ loc = [r \in Procs |-> NoLoc]
    /\ resp = [r \in Procs |-> NoResp]
    /\ InitNotCart

NextPutAdd ==
    \E r \in Procs :
        \/ \E q \in 1..MaxQty : AddToCartPost(r, "u1", 1, 1, q)
        \/ GetOrCreateCart(r)
        \/ SelectForUpdate(r)
        \/ AddIncrement(r)
        \/ AddCommit(r)
        \/ \E q \in 1..MaxStock : CartItemPut(r, "u1", 1, q)
        \/ CartItemPutSave(r)

SpecPutAdd == InitPutAdd /\ [][NextPutAdd]_vars

(* Two users, each with a cart of one line item; either user sends         *)
(* UpdateCartItem and RemoveCartItem requests with any primary key, the     *)
(* other user's included.                                                   *)
InitOwner ==
    /\ stock = [s \in Sizes |-> MaxStock]
    /\ carts = Users
    /\ items = [i \in ItemIds |->
                  IF i = 1 THEN [cart |-> "u1", product |-> 1, size |-> 1,
                                 quantity |-> HeldAtStart]
                  ELSE IF i = 2 THEN [cart |-> "u2", product |-> 1, size |-> 1,
                                      quantity |-> HeldAtStart]
                  ELSE NoItem]
    /\ nextId = 3
    /\ pc = [r \in Procs |-> "idle"]
    /\ req = [r \in Procs |-> NoReq]
    /\ loc = [r \in Procs |-> NoLoc]
    /\ resp = [r \in Procs |-> NoResp]
    /\ InitNotCart

NextOwner ==
    \E r \in Workers :
        \/ \E u \in Users, pk \in ItemIds, q \in 1..MaxQty : CartItemPut(r, u, pk, q)
        \/ CartItemPutSave(r)
        \/ \E u \in Users, pk \in ItemIds : CartItemDelete(r, u, pk)
        \/ CartItemDeleteRow(r)
        \/ Respond(r)

SpecOwner == InitOwner /\ [][NextOwner]_vars

(* Every cart operation of two users who start without a Cart, with         *)
(* quantities below 1 among the requests, while the ledger moves the stock  *)
(* of size 1 between 1 and MaxStock.                                        *)
InitCart ==
    /\ stock = [s \in Sizes |-> MaxStock]
    /\ carts = {}
    /\ items = [i \in ItemIds |-> NoItem]
    /\ nextId = 1
    /\ pc = [r \in Procs |-> "idle"]
    /\ req = [r \in Procs |-> NoReq]
    /\ loc = [r \in Procs |-> NoLoc]
    /\ resp = [r \in Procs |-> NoResp]
    /\ InitNotCart

\* quantities a request may carry: negative, zero, and up to MaxQty
AnyQty == (0 - 1)..MaxQty

\* the line (1, 1) with every quantity, and one request for each failed
\* precondition: missing product, inactive product, missing size, size of
\* another product
CartInputs ==
    {<<1, 1, q>> : q \in AnyQty} \cup
    {<<0, 1, 1>>, <<3, 1, 1>>, <<1, 0, 1>>, <<1, 2, 1>>}

NextCart ==
    \/ \E r \in Workers, u \in Users, d \in CartInputs :
          KeysLeft /\ AddToCartPost(r, u, d[1], d[2], d[3])
    \/ \E r \in Workers : GetOrCreateCart(r)
    \/ \E r \in Workers : SelectForUpdate(r)
    \/ \E r \in Workers : AddIncrement(r)
    \/ \E r \in Workers : AddInsert(r)
    \/ \E r \in Workers : AddCommit(r)
    \/ \E r \in Workers, u \in Users, pk \in ItemIds, q \in AnyQty :
          CartItemPut(r, u, pk, q)
    \/ \E r \in Workers : CartItemPutSave(r)
    \/ \E r \in Workers, u \in Users, pk \in ItemIds : CartItemDelete(r, u, pk)
    \/ \E r \in Workers : CartItemDeleteRow(r)
    \/ \E r \in Workers, u \in Users : CartGet(r, u)
    \/ \E r \in Workers : CartGetTotal(r)
    \/ \E r \in Workers : Respond(r)
    \/ \E v \in {1, MaxStock} : SetStock(1, v)

SpecCart == InitCart /\ [][NextCart]_vars

(* One user adds the lines (1, 1) and (2, 2), removes items and reads the   *)
(* cart, while the catalog changes the prices of both products.             *)
NextRead ==
    \/ \E r \in Workers, q \in 1..MaxQty : KeysLeft /\ AddToCartPost(r, "u1", 1, 1, q)
    \/ \E r \in Workers : KeysLeft /\ AddToCartPost(r, "u1", 2, 2, 1)
    \/ \E r \in Workers : GetOrCreateCart(r)
    \/ \E r \in Workers : SelectForUpdate(r)
    \/ \E r \in Workers : AddIncrement(r)
    \/ \E r \in Workers : AddInsert(r)
    \/ \E r \in Workers : AddCommit(r)
    \/ \E r \in Workers, pk \in ItemIds : CartItemDelete(r, "u1", pk)
    \/ \E r \in Workers : CartItemDeleteRow(r)
    \/ \E r \in Workers : CartGet(r, "u1")
    \/ \E r \in Workers : CartGetTotal(r)
    \/ \E r \in Workers : Respond(r)
    \/ \E p \in {1, 2}, v \in PriceValues : SetPrice(p, v)

SpecRead == InitCart /\ [][NextRead]_vars

(* The wishlist calls of two users who start without a Wishlist: adds of an *)
(* active product, of a second one, of a missing and of an inactive one,    *)
(* and removals by any primary key.                                         *)
NextWish ==
    \/ \E r \in Workers, u \in Users, p \in Products \cup {0} :
          WishKeysLeft /\ AddToWishlistPost(r, u, p)
    \/ \E r \in Workers : WishlistGetOrCreate(r)
    \/ \E r \in Workers : WishlistCreate(r)
    \/ \E r \in Workers, u \in Users, pk \in WishItemIds : WishlistItemDelete(r, u, pk)
    \/ \E r \in Workers : WishlistItemDeleteRow(r)
    \/ \E r \in Workers : Respond(r)

SpecWish == InitCart /\ [][NextWish]_vars

(* Two users, both without Cart and Wishlist at the start, each sending     *)
(* cart and wishlist requests on the same product and with any primary key. *)
NextIso ==
    \/ \E r \in Workers, u \in Users : KeysLeft /\ AddToCartPost(r, u, 1, 1, 1)
    \/ \E r \in Workers : GetOrCreateCart(r)
    \/ \E r \in Workers : SelectForUpdate(r)
    \/ \E r \in Workers : AddIncrement(r)
    \/ \E r \in Workers : AddInsert(r)
    \/ \E r \in Workers : AddCommit(r)
    \/ \E r \in Workers, u \in Users, pk \in ItemIds : CartItemPut(r, u, pk, MaxQty)
    \/ \E r \in Workers : CartItemPutSave(r)
    \/ \E r \in Workers, u \in Users, pk \in ItemIds : CartItemDelete(r, u, pk)
    \/ \E r \in Workers : CartItemDeleteRow(r)
    \/ \E r \in Workers, u \in Users : WishKeysLeft /\ AddToWishlistPost(r, u, 1)
    \/ \E r \in Workers : WishlistGetOrCreate(r)
    \/ \E r \in Workers : WishlistCreate(r)
    \/ \E r \in Workers, u \in Users, pk \in WishItemIds : WishlistItemDelete(r, u, pk)
    \/ \E r \in Workers : WishlistItemDeleteRow(r)
    \/ \E r \in Workers : Respond(r)

SpecIso == InitCart /\ [][NextIso]_vars

(* ------------------------------- claims ------------------------------- *)
\* the quantity stored for the line, over every row that has its key
StoredQuantity(u, p, s) ==
    SumOver([i \in ItemIds |-> items[i].quantity], LineItems(u, p, s))

\* the handlers whose AddToCart returned 201
Succeeded == {r \in Procs : Answered(r, "add") /\ resp[r].status = "Success"}

\* C1: once the concurrent AddToCart calls on one line have all returned, the
\* quantity stored on the line item is at most the (fixed) stock of its size.
C1_NoOversell ==
    Quiescent =>
        \A i \in ItemIds : items[i] # NoItem => items[i].quantity <= stock[items[i].size]

\* C2: once the concurrent AddToCart calls on one line have all returned, the
\* stored quantity is the sum of the quantities requested by the calls that
\* returned success.
C2_NoLostUpdates ==
    Quiescent =>
        StoredQuantity("u1", 1, 1) = SumOver([r \in Procs |-> req[r].quantity], Succeeded)

\* two calls succeeded and the row holds both increments
C2_Witness ==
    /\ Quiescent
    /\ Cardinality(Succeeded) >= 2
    /\ StoredQuantity("u1", 1, 1) >= 2

AddOutcomes == {"Success", "NotFound", "Inactive", "SizeMismatch", "InsufficientStock"}

\* C3: every AddToCart call (of a quantity >= 1), also one of two concurrent
\* first adds of a line, ends in success, NotFound, Inactive, SizeMismatch or
\* InsufficientStock, and a call that commits (its serialization point) never
\* stores more than the stock of the size.
C3_AddOutcomes ==
    [][\A r \in Procs :
          (pc[r] # "done" /\ pc'[r] = "done" /\ req'[r].kind = "add"
                /\ req'[r].quantity >= 1)
          => /\ resp'[r].status \in AddOutcomes
             /\ resp'[r].status = "Success"
                   => resp'[r].quantity <= stock[req'[r].size_id]]_vars

\* C4: no cart holds two CartItem rows of the same (product, size).
C4_UniqueLine ==
    \A i, j \in ItemIds :
        (i # j /\ items[i] # NoItem /\ items[j] # NoItem /\ items[i].cart = items[j].cart)
        => <<items[i].product, items[i].size>> # <<items[j].product, items[j].size>>

\* a second insert of a line was refused, and the cart holds the line
C4_Witness ==
    \E r \in Procs : Answered(r, "add") /\ resp[r].status = "IntegrityError"
                        /\ LineItems(req[r].user, req[r].product_id, req[r].size_id) # {}

\* the handlers that have answered an AddToCart
AnsweredAdds == {r \in Procs : Answered(r, "add")}

\* C5: after AddToCart calls of one user on one line made one after the other,
\* whose quantities sum to at most the stock, the cart holds exactly one row of
\* the line and its quantity is that sum.
C5_MergeNotDuplicate ==
    (/\ Quiescent
     /\ Cardinality(AnsweredAdds) >= 2
     /\ SumOver([r \in Procs |-> req[r].quantity], AnsweredAdds) <= stock[1])
    => /\ Cardinality(LineItems("u1", 1, 1)) = 1
       /\ StoredQuantity("u1", 1, 1)
             = SumOver([r \in Procs |-> req[r].quantity], AnsweredAdds)

\* two calls, one after the other, left one row holding both quantities
C5_Witness ==
    /\ Quiescent
    /\ Cardinality(AnsweredAdds) = 2
    /\ Cardinality(LineItems("u1", 1, 1)) = 1
    /\ StoredQuantity("u1", 1, 1)
          = SumOver([r \in Procs |-> req[r].quantity], AnsweredAdds)

\* C6: every step that writes a CartItem quantity (the commit of an AddToCart,
\* the save of an UpdateCartItem) writes a value that is at most the stock of
\* the item's size at that moment.
C6_CommitWithinStock ==
    [][\A i \in ItemIds :
          (items'[i] # NoItem /\ items'[i] # items[i])
          => items'[i].quantity <= stock[items'[i].size]]_vars

\* the request handler r starts to serve in this step
Starts(r, kind) == pc[r] = "idle" /\ pc'[r] # "idle" /\ req'[r].kind = kind

\* C7: an AddToCart that meets its preconditions and whose quantity, added to
\* the quantity the cart holds when the call validates, exceeds the stock, ends
\* in InsufficientStock reporting the stock and the held quantity, and changes
\* no Cart, no CartItem and no stock.
C7_RejectNoMutation ==
    [][\A r \in Procs :
          (/\ Starts(r, "add")
           /\ req'[r].product_id \in products /\ IsActive(req'[r].product_id)
           /\ req'[r].size_id \in sizes
           /\ SizeProduct(req'[r].size_id) = req'[r].product_id
           /\ req'[r].quantity >= 1
           /\ ExistingQty(req'[r].user, req'[r].product_id, req'[r].size_id)
                 + req'[r].quantity > stock[req'[r].size_id])
          => /\ pc'[r] = "done"
             /\ resp'[r] = Response("InsufficientStock", 0, stock[req'[r].size_id],
                               ExistingQty(req'[r].user, req'[r].product_id,
                                           req'[r].size_id))
             /\ UNCHANGED <<stock, carts, items, nextId>>]_vars

\* a call was refused that the stock alone would have allowed: the cart held
\* part of it
C7_Witness ==
    \E r \in Procs :
        /\ Answered(r, "add") /\ resp[r].status = "InsufficientStock"
        /\ resp[r].held >= 1
        /\ req[r].quantity <= resp[r].available
        /\ StoredQuantity(req[r].user, req[r].product_id, req[r].size_id) = resp[r].held

\* the line quantity after a serial AddToCart of q, and after a serial
\* UpdateCartItem to v, from the held quantity h with stock a (spec 4.1)
SerialAdd(h, q, a) == IF h + q > a THEN h ELSE h + q
SerialUpdate(h, v, a) == IF v > a THEN h ELSE v

\* C8: after one UpdateCartItem and one AddToCart on the same line item have
\* both returned, the stored quantity is what one of the two serial orders
\* leaves, and so at most the stock.
C8_PutAddSerial ==
    \A rp, ra \in Procs :
        (/\ Quiescent
         /\ Answered(rp, "put") /\ Answered(ra, "add")
         /\ \A x \in Procs \ {rp, ra} : pc[x] = "idle")
        => /\ items[1].quantity \in
                 {SerialAdd(SerialUpdate(HeldAtStart, req[rp].quantity, stock[1]),
                            req[ra].quantity, stock[1]),
                  SerialUpdate(SerialAdd(HeldAtStart, req[ra].quantity, stock[1]),
                               req[rp].quantity, stock[1])}
           /\ items[1].quantity <= stock[1]

\* C9: an UpdateCartItem of the caller's item to a quantity above the stock of
\* its size ends in InsufficientStock and leaves every CartItem as it was; one
\* to a quantity from 1 to the stock is accepted, and its save sets the
\* quantity of the row to exactly that value.
C9_UpdateQuantity ==
    [][\A r \in Procs :
          /\ (Starts(r, "put") /\ GetObject(req'[r].pk, req'[r].user) # 0
                /\ req'[r].quantity > stock[items[req'[r].pk].size])
             => (pc'[r] = "done" /\ resp'[r].status = "InsufficientStock"
                 /\ UNCHANGED <<stock, carts, items, nextId>>)
          /\ (Starts(r, "put") /\ GetObject(req'[r].pk, req'[r].user) # 0
                /\ req'[r].quantity >= 1
                /\ req'[r].quantity <= stock[items[req'[r].pk].size])
             => (pc'[r] = "put_save" /\ UNCHANGED <<stock, carts, items, nextId>>)
          /\ (pc[r] = "put_save" /\ pc'[r] = "done" /\ items[req[r].pk] # NoItem)
             => (/\ resp'[r] = Response("Success", req[r].quantity, 0, 0)
                 /\ items' = [items EXCEPT ![req[r].pk].quantity = req[r].quantity])]_vars

\* one update was refused for stock and left the row with less than it asked,
\* another was written to the row
C9_Witness ==
    /\ \E r \in Procs :
          /\ Answered(r, "put") /\ resp[r].status = "InsufficientStock"
          /\ items[req[r].pk] # NoItem
          /\ items[req[r].pk].quantity < req[r].quantity
    /\ \E r \in Procs :
          /\ Answered(r, "put") /\ resp[r].status = "Success"
          /\ items[req[r].pk] # NoItem
          /\ items[req[r].pk].quantity = req[r].quantity

C11_CrossUserNotFound ==
    [][/\ \A r \in Procs :
             (/\ Starts(r, "put") \/ Starts(r, "delete")
              /\ items[req'[r].pk] # NoItem
              /\ items[req'[r].pk].cart # req'[r].user)
             => (pc'[r] = "done" /\ resp'[r].status = "NotFound"
                 /\ UNCHANGED <<stock, carts, items, nextId>>)
       /\ \A i \in ItemIds :
             (items[i] # NoItem /\ items'[i] # items[i])
             => \E r \in Procs : pc'[r] # pc[r] /\ req[r].user = items[i].cart]_vars

\* u2 asked to update and to remove the item of u1: both NotFound, and the item
\* is there with the quantity it had
C11_Witness ==
    \E r1, r2 \in Procs :
        /\ Answered(r1, "put") /\ Answered(r2, "delete")
        /\ req[r1].user = "u2" /\ req[r2].user = "u2"
        /\ req[r1].pk = 1 /\ req[r2].pk = 1
        /\ req[r1].quantity # HeldAtStart
        /\ resp[r1].status = "NotFound" /\ resp[r2].status = "NotFound"
        /\ items[1] = [cart |-> "u1", product |-> 1, size |-> 1,
                       quantity |-> HeldAtStart]

\* C12: every stored CartItem has a quantity of at least 1, whatever
\* quantities (negative and zero included) the AddToCart and UpdateCartItem
\* requests carried.
C12_QuantityAtLeastOne ==
    \A i \in ItemIds : items[i] # NoItem => items[i].quantity >= 1

\* an add of a negative quantity and an update of the caller's row to zero
\* were both refused, and the row is there
C12_Witness ==
    \E r1, r2 \in Procs :
        /\ Answered(r1, "add") /\ req[r1].quantity < 0
        /\ req[r1].product_id = 1 /\ req[r1].size_id = 1
        /\ resp[r1].status = "Invalid"
        /\ Answered(r2, "put") /\ req[r2].quantity = 0
        /\ GetObject(req[r2].pk, req[r2].user) # 0
        /\ resp[r2].status = "Invalid"
        /\ items[req[r2].pk].quantity >= 1

\* C13: no user has a Cart at the start; a Cart row appears only in the step
\* in which an AddToCart of that user commits and answers success, every
\* AddToCart that answers success leaves its user with a Cart, and no step
\* (a removal of the last item included) takes a Cart away.  So a user has a
\* Cart exactly when one of their AddToCart calls has succeeded.
C13_LazyCart ==
    /\ carts = {}
    /\ [][/\ carts \subseteq carts'
          /\ \A u \in carts' \ carts :
                \E r \in Procs :
                    /\ req[r].kind = "add" /\ req[r].user = u
                    /\ pc[r] = "commit" /\ pc'[r] = "done"
                    /\ resp'[r].status = "Success"
          /\ \A r \in Procs :
                (/\ pc[r] # "done" /\ pc'[r] = "done" /\ req'[r].kind = "add"
                 /\ resp'[r].status = "Success")
                => req'[r].user \in carts']_vars

\* u1 added an item and removed it and still has the Cart, empty; u2, whose
\* add was refused and who then read the cart, has none
C13_Witness ==
    /\ carts = {"u1"} /\ CartRows("u1") = {} /\ nextId > 1
    /\ \E r1, r2 \in Procs :
          /\ Answered(r1, "add") /\ req[r1].user = "u2"
          /\ resp[r1].status # "Success"
          /\ Answered(r2, "get") /\ req[r2].user = "u2"
          /\ resp[r2] = EmptyCart

\* C14: a GetCart of a user without a Cart answers at once with the empty
\* structure (no items, total 0, item_count 0); one of a user with a Cart goes
\* on to compute the total and answers with the cart; every GetCart answers
\* success, and no step of a GetCart changes a Cart, a CartItem, a stock, a
\* price or a wishlist.
C14_GetCartPureRead ==
    [][\A r \in Procs :
          /\ (Starts(r, "get") /\ req'[r].user \notin carts)
             => (/\ pc'[r] = "done"
                 /\ resp'[r].status = "Success" /\ resp'[r].items = {}
                 /\ resp'[r].cart_total = 0 /\ resp'[r].item_count = 0)
          /\ (Starts(r, "get") /\ req'[r].user \in carts)
             => pc'[r] = "get_total"
          /\ (pc[r] = "get_total" /\ pc'[r] # "get_total")
             => (/\ pc'[r] = "done"
                 /\ resp'[r].status = "Success" /\ resp'[r].id = req[r].user)
          /\ (req'[r].kind = "get" /\ pc'[r] # pc[r] /\ pc'[r] # "idle")
             => (UNCHANGED <<stock, carts, items, nextId>> /\ UNCHANGED notCart)]_vars

\* u2, who has no Cart, was answered the empty structure and still has no
\* Cart; u1 was answered a cart with an item
C14_Witness ==
    \E r1, r2 \in Procs :
        /\ Answered(r1, "get") /\ req[r1].user = "u2"
        /\ resp[r1] = EmptyCart /\ "u2" \notin carts
        /\ Answered(r2, "get") /\ req[r2].user = "u1"
        /\ resp[r2].item_count = 1 /\ resp[r2].items = CartRows("u1")

\* C15: the total a GetCart returns is the sum, over the rows the cart has
\* when the total is read, of the row's quantity times the price its product
\* has at that moment (0 for a cart without rows), whatever the price was when
\* the row was added.
C15_TotalAtReadTime ==
    [][\A r \in Procs :
          (pc[r] = "get_total" /\ pc'[r] = "done")
          => resp'[r].cart_total =
                SumOver([i \in ItemIds |-> items[i].quantity * price[items[i].product]],
                        {i \in ItemIds : items[i] # NoItem
                                          /\ items[i].cart = req[r].user})]_vars

\* a cart of two lines, one of them of a quantity above 1 and of a product
\* whose price was raised after the add, was read with the new price
C15_Witness ==
    \E r \in Procs :
        /\ Answered(r, "get") /\ resp[r].item_count = 2
        /\ \E i \in CartRows("u1") : items[i].quantity > 1 /\ price[items[i].product] > 1
        /\ resp[r].cart_total = Total("u1")
        /\ resp[r].cart_total > 2 * MaxQty

\* the AddToCart of r cannot take its next step before the transaction of x
\* ends: its insert of the Cart waits on the unique index of Cart.user, its
\* select_for_update on the row lock, its insert of the row on the unique
\* index of the line
WaitsFor(r, x) ==
    \/ pc[r] = "get_or_create" /\ PendingCart(x, req[r].user)
    \/ /\ pc[r] = "select_for_update"
       /\ \E i \in LineItems(req[r].user, req[r].product_id, req[r].size_id) :
             HoldsRowLock(x, i)
    \/ /\ pc[r] = "write" /\ loc[r].item = 0
       /\ PendingItem(x, req[r].user, req[r].product_id, req[r].size_id)

\* C16: of two concurrent AddToCart calls of one user for different products,
\* neither ever waits for the transaction of the other, also when the user has
\* no Cart yet.
C16_NoBlockingAcrossProducts ==
    \A r, x \in Procs :
        (/\ r # x
         /\ req[r].kind = "add" /\ req[x].kind = "add"
         /\ req[r].user = req[x].user
         /\ req[r].product_id # req[x].product_id)
        => ~WaitsFor(r, x)

\* C17: no step of an AddToCart, an UpdateCartItem, a RemoveCartItem or a
\* GetCart, whether the request ends in success or in an error, changes the
\* stock of any size: the stock only changes in steps of the ledger.
C17_StockNeverMutated ==
    [][(\E r \in Procs : pc'[r] # pc[r] \/ resp'[r] # resp[r] \/ req'[r] # req[r])
          => stock' = stock]_vars

\* an add and an update have both written the largest quantity to a row, and
\* every size has the stock it started with
C17_Witness ==
    \E r1, r2 \in Procs :
        /\ Answered(r1, "add") /\ resp[r1].status = "Success"
        /\ resp[r1].quantity = MaxQty
        /\ Answered(r2, "put") /\ resp[r2].status = "Success"
        /\ req[r2].quantity = MaxQty
        /\ \E i \in ItemIds : items[i] # NoItem /\ items[i].quantity = MaxQty
        /\ stock = [s \in Sizes |-> MaxStock]

\* C18: an AddToCart that fails a precondition is answered at once with the
\* error of the first precondition it fails (product missing: NotFound;
\* product inactive: Inactive; size missing: NotFound; quantity below 1:
\* Invalid; size of another product: SizeMismatch) and the step creates no Cart
\* and creates or changes no CartItem.
C18_FailedPreconditions ==
    [][\A r \in Procs :
          Starts(r, "add") =>
            LET p == req'[r].product_id
                s == req'[r].size_id
                q == req'[r].quantity
                Rejected(st) ==
                    /\ pc'[r] = "done" /\ resp'[r].status = st
                    /\ UNCHANGED <<stock, carts, items, nextId>>
            IN /\ p \notin products => Rejected("NotFound")
               /\ (p \in products /\ ~IsActive(p)) => Rejected("Inactive")
               /\ (p \in products /\ IsActive(p) /\ s \notin sizes)
                     => Rejected("NotFound")
               /\ (p \in products /\ IsActive(p) /\ s \in sizes /\ q < 1)
                     => Rejected("Invalid")
               /\ (p \in products /\ IsActive(p) /\ s \in sizes /\ q >= 1
                      /\ SizeProduct(s) # p)
                     => Rejected("SizeMismatch")]_vars

\* u2 asked for an inactive product and for a size of another product: both
\* were refused and u2 has no Cart and no CartItem
C18_Witness ==
    \E r1, r2 \in Procs :
        /\ Answered(r1, "add") /\ req[r1].user = "u2" /\ resp[r1].status = "Inactive"
        /\ Answered(r2, "add") /\ req[r2].user = "u2" /\ resp[r2].status = "SizeMismatch"
        /\ "u2" \notin carts /\ CartRows("u2") = {}

\* C19: no wishlist holds two WishlistItem rows of the same product, whatever
\* the interleaving of AddToWishlist and RemoveWishlistItem calls.
C19_WishlistUnique ==
    \A i, j \in WishItemIds :
        (i # j /\ witems[i] # NoWish /\ witems[j] # NoWish
               /\ witems[i].wishlist = witems[j].wishlist)
        => witems[i].product # witems[j].product

\* two concurrent adds of one product both passed the duplicate check; one
\* inserted the row, the insert of the other was refused by the constraint
C19_Witness ==
    \E r1, r2 \in Procs :
        /\ Answered(r1, "wadd") /\ Answered(r2, "wadd")
        /\ req[r1].user = req[r2].user /\ req[r1].product_id = req[r2].product_id
        /\ resp[r1].status = "Success" /\ resp[r2].status = "IntegrityError"
        /\ Cardinality(WishRows(req[r1].user, req[r1].product_id)) = 1

WishlistOutcomes == {"Success", "NotFound", "Inactive", "Duplicate"}

\* C20: every AddToWishlist ends in success, NotFound, Inactive or Duplicate,
\* and one that finds the product in the wishlist when it inserts ends in
\* Duplicate.
C20_WishlistOutcomes ==
    \A r \in Procs : Answered(r, "wadd") => resp[r].status \in WishlistOutcomes

Caller(r) == IF pc[r] = "idle" THEN req'[r].user ELSE req[r].user

\* C22: every step of a cart or wishlist request of user u, whatever the
\* request carries and however it ends, changes no Cart, CartItem, Wishlist or
\* WishlistItem of another user: a row that changes belongs to u before and
\* after, and a Cart or Wishlist that appears is the one of u.
C22_CallerIsolation ==
    [][\A r \in Procs :
          pc'[r] # pc[r] =>
            /\ \A w \in Users \ {Caller(r)} :
                  /\ (w \in carts') = (w \in carts)
                  /\ (w \in wishlists') = (w \in wishlists)
            /\ \A i \in ItemIds :
                  items'[i] # items[i]
                  => /\ items[i] # NoItem => items[i].cart = Caller(r)
                     /\ items'[i] # NoItem => items'[i].cart = Caller(r)
            /\ \A i \in WishItemIds :
                  witems'[i] # witems[i]
                  => /\ witems[i] # NoWish => witems[i].wishlist = Caller(r)
                     /\ witems'[i] # NoWish => witems'[i].wishlist = Caller(r)]_vars

\* u2 has added the line and the product that u1 holds, and has asked to
\* remove the cart item of u1: u1 still has the row, with its quantity, and
\* the wishlist entry
C22_Witness ==
    /\ \E i \in CartRows("u1") : items[i].quantity = MaxQty
    /\ CartRows("u2") # {}
    /\ WishRows("u1", 1) # {}
    /\ \E r1, r2 \in Procs :
          /\ Answered(r1, "delete") /\ req[r1].user = "u2"
          /\ req[r1].pk \in CartRows("u1") /\ resp[r1].status = "NotFound"
          /\ Answered(r2, "wadd") /\ req[r2].user = "u2"
          /\ resp[r2].status = "Success"

\* the Cart rows of user u: the committed one and those inserted by
\* transactions that are still open
CartRowCount(u) ==
    (IF u \in carts THEN 1 ELSE 0) + Cardinality({r \in Procs : PendingCart(r, u)})

\* C23: a user never has more than one Cart row, committed or about to be
\* committed, also while the first AddToCart calls of the user run
\* concurrently.
C23_OneCartPerUser == \A u \in Users : CartRowCount(u) <= 1

\* of two concurrent first adds of u1, one has inserted the Cart and its row
\* and is about to commit, and the other has not got past get_or_create
C23_Witness ==
    \E r1, r2 \in Procs :
        /\ "u1" \notin carts
        /\ pc[r1] = "commit" /\ PendingCart(r1, "u1")
        /\ pc[r2] = "get_or_create" /\ req[r2].user = "u1"

\* r has made the stock comparison of its AddToCart (the one of validate(),
\* the only one the call makes) and has not yet committed its write
ComparedNotWritten(r) ==
    /\ req[r].kind = "add"
    /\ pc[r] \in {"get_or_create", "select_for_update", "write", "commit"}

\* C24: between the stock comparison that lets an AddToCart go on to write
\* and the commit of its write, no other AddToCart on the same (cart, product,
\* size) commits: the comparison is made on values read under the lock of the
\* line.
C24_CompareUnderLock ==
    [][\A r, x \in Procs :
          (/\ r # x
           /\ ComparedNotWritten(r) /\ pc'[r] = pc[r]
           /\ req[x].kind = "add"
           /\ req[x].user = req[r].user
           /\ req[x].product_id = req[r].product_id
           /\ req[x].size_id = req[r].size_id)
          => ~(pc[x] = "commit" /\ pc'[x] = "done")]_vars

\* C25: an UpdateCartItem, a RemoveCartItem or a RemoveWishlistItem with an
\* id under which the caller has no row gets one and the same response,
\* NotFound with nothing else in it, whether the id is the row of another user
\* or of nobody: the response does not depend on the other users' rows.
C25_NoExistenceDisclosure ==
    [][\A r \in Procs :
          /\ (/\ Starts(r, "put") \/ Starts(r, "delete")
              /\ (items[req'[r].pk] = NoItem \/ items[req'[r].pk].cart # req'[r].user))
             => (pc'[r] = "done" /\ resp'[r] = Response("NotFound", 0, 0, 0))
          /\ (/\ Starts(r, "wdelete")
              /\ \/ witems[req'[r].pk] = NoWish
                 \/ witems[req'[r].pk].wishlist # req'[r].user)
             => (pc'[r] = "done" /\ resp'[r] = Response("NotFound", 0, 0, 0))]_vars

\* u2 asked to remove the wishlist item of u1 and a wishlist item that does
\* not exist, and got the same response twice
C25_Witness ==
    \E r1, r2 \in Procs :
        /\ Answered(r1, "wdelete") /\ Answered(r2, "wdelete")
        /\ req[r1].user = "u2" /\ req[r2].user = "u2"
        /\ witems[req[r1].pk] # NoWish /\ witems[req[r1].pk].wishlist = "u1"
        /\ witems[req[r2].pk] = NoWish /\ wnextId = req[r2].pk
        /\ resp[r1] = resp[r2]

\* C29: a RemoveCartItem that succeeded leaves its primary key without a row;
\* the save of an UpdateCartItem creates no row (on a row that is gone it
\* writes nothing) and changes no row but its own; so whenever a successful
\* remove and an update of the same CartItem have both finished, in either
\* order of their steps, the CartItem does not exist.
C29_NeverResurrected ==
    [][/\ \A r \in Procs :
             (pc[r] = "put_save" /\ pc'[r] = "done")
             => (/\ \A i \in ItemIds :
                       (i # req[r].pk \/ items[i] = NoItem) => items'[i] = items[i]
                 /\ UNCHANGED <<stock, carts, nextId>>)
       /\ \A r1, r2 \in Procs :
             (/\ pc'[r1] = "done" /\ req'[r1].kind = "delete"
              /\ resp'[r1].status = "Success"
              /\ pc'[r2] = "done" /\ req'[r2].kind = "put"
              /\ req'[r2].pk = req'[r1].pk)
             => items'[req'[r1].pk] = NoItem]_vars

\* the update passed validation while the row was there, the remove deleted
\* the row and answered 204, and the save of the update then found no row:
\* it failed and the row is still gone
C29_Witness ==
    \E r1, r2 \in Procs :
        /\ Answered(r1, "delete") /\ resp[r1].status = "Success"
        /\ Answered(r2, "put") /\ resp[r2].status = "DatabaseError"
        /\ req[r1].pk = 1 /\ req[r2].pk = 1
        /\ items[1] = NoItem
        /\ items[2] # NoItem

(* The catalog of an admin who creates products and sends partial updates   *)
(* of price and compare_at_price, starting from a catalog without products.  *)
InitCatalog ==
    /\ stock = [s \in Sizes |-> MaxStock]
    /\ carts = {}
    /\ items = [i \in ItemIds |-> NoItem]
    /\ nextId = 1
    /\ pc = [r \in Procs |-> "idle"]
    /\ req = [r \in Procs |-> NoReq]
    /\ loc = [r \in Procs |-> NoLoc]
    /\ resp = [r \in Procs |-> NoResp]
    /\ price = [p \in Products |-> 1]
    /\ wishlists = {}
    /\ witems = [i \in WishItemIds |-> NoWish]
    /\ wnextId = 1
    /\ products = {}
    /\ compareAt = [p \in Products |-> 0]
    /\ sizes = {}
    /\ heroRows = {}
    /\ hero = NoHero
    /\ cache = NoCache

\* request bodies with and without each of the two price fields
PriceData ==
    {ProductData(hp, pr, hc, cp, FALSE, 1) :
        hp \in BOOLEAN, pr \in PriceValues, hc \in BOOLEAN,
        cp \in {0} \cup PriceValues}

NextCatalog ==
    \/ \E data \in PriceData : data.has_price /\ ProductCreate(data)
    \/ \E p \in Products, data \in PriceData : ProductUpdate(1, p, data)
    \/ Respond(1)

SpecCatalog == InitCatalog /\ [][NextCatalog]_vars

\* C26: every Product that exists has a compare_at_price that is null or at
\* least its price, after any creations and partial updates the two product
\* serializers accepted.
C26_CompareAtLeastPrice ==
    \A p \in products : compareAt[p] = 0 \/ compareAt[p] >= price[p]

(* The homepage hero: model calls of save() on instances of any primary     *)
(* key, of delete() and of load(), admin PUTs and public GETs of two         *)
(* workers, and the expiry of the cache entry; no row at the start.          *)
InitHero ==
    /\ stock = [s \in Sizes |-> MaxStock]
    /\ carts = {}
    /\ items = [i \in ItemIds |-> NoItem]
    /\ nextId = 1
    /\ pc = [r \in Procs |-> "idle"]
    /\ req = [r \in Procs |-> NoReq]
    /\ loc = [r \in Procs |-> NoLoc]
    /\ resp = [r \in Procs |-> NoResp]
    /\ InitNotCart

NextHero ==
    \E r \in Workers :
        \/ \E k \in {0} \cup HeroPks, active \in BOOLEAN : HeroSave(r, k, active)
        \/ HeroSuperSave(r)
        \/ HeroCacheDelete(r)
        \/ HeroDelete(r)
        \/ HeroLoad(r)
        \/ \E valid, has_is_active, is_active \in BOOLEAN :
              HeroPut(r, valid, has_is_active, is_active)
        \/ HeroGet(r)
        \/ HeroDbGet(r)
        \/ HeroCacheSet(r)
        \/ CacheExpire
        \/ Respond(r)

SpecHero == InitHero /\ [][NextHero]_vars

\* C27: there is never a HomepageHero row with a primary key other than 1;
\* a delete() changes nothing; and the row, once there, is there in every
\* later state.
C27_HeroSingleton ==
    /\ [](heroRows \subseteq {1})
    /\ [][/\ 1 \in heroRows => 1 \in heroRows'
          /\ \A r \in Procs :
                Starts(r, "hero_delete") => UNCHANGED <<heroRows, hero, cache>>]_vars

\* a save() of an instance with primary key 2 and a delete() have returned:
\* the one row is the row of pk 1, with the data of the save
C27_Witness ==
    \E r1, r2 \in Procs :
        /\ Answered(r1, "hero_save") /\ req[r1].pk = MaxHeroPk
        /\ Answered(r2, "hero_delete")
        /\ heroRows = {1}
        /\ hero.version = resp[r1].version

\* C28: once a PUT has returned its 200 response, the cache entry never
\* holds hero data older than the data that PUT stored (so a GET that starts
\* afterwards cannot return older data).
C28_CacheNotOlder ==
    \A r \in Procs :
        (Answered(r, "hero_put") /\ resp[r].status = "Success")
        => (cache = NoCache \/ cache.version >= resp[r].version)

(* AddToCart calls of u1 for product 1, with its size 1 and with the size    *)
(* 3 a replacement creates, while an admin update replaces the sizes of      *)
(* product 1; u1 starts with or without a Cart, and without items.           *)
InitSizes ==
    /\ stock = [s \in Sizes |-> MaxStock]
    /\ carts \in SUBSET {"u1"}
    /\ items = [i \in ItemIds |-> NoItem]
    /\ nextId = 1
    /\ pc = [r \in Procs |-> "idle"]
    /\ req = [r \in Procs |-> NoReq]
    /\ loc = [r \in Procs |-> NoLoc]
    /\ resp = [r \in Procs |-> NoResp]
    /\ InitNotCart

NextSizes ==
    \E r \in Workers :
        \/ \E s \in {x \in Sizes : SizeProduct(x) = 1} :
              KeysLeft /\ AddToCartPost(r, "u1", 1, s, 1)
        \/ GetOrCreateCart(r)
        \/ SelectForUpdate(r)
        \/ AddIncrement(r)
        \/ AddInsert(r)
        \/ AddCommit(r)
        \/ \E q \in {1, MaxStock} :
              ProductUpdate(r, 1, ProductData(FALSE, 1, FALSE, 0, TRUE, q))
        \/ SizesCollect(r)
        \/ SizesDelete(r)
        \/ SizesCommit(r)
        \/ SizesCreate(r)
        \/ Respond(r)

SpecSizes == InitSizes /\ [][NextSizes]_vars

\* C30: every CartItem references a ProductSize that exists and whose
\* product is the product of the CartItem, in every state, the states during
\* and after a replacement of the product's sizes included.
C30_ReferentialConsistency ==
    \A i \in ItemIds :
        items[i] # NoItem
        => (/\ items[i].size \in sizes
            /\ items[i].product \in products
            /\ SizeProduct(items[i].size) = items[i].product)

\* the sizes of product 1 were replaced, which deleted the item u1 had of
\* size 1 with the size; an add of size 1 that had passed validation before
\* the delete failed at its commit: no item of size 1 is left
C30_Witness ==
    \E r1, r2 \in Procs :
        /\ Answered(r1, "add") /\ req[r1].size_id = 1
        /\ resp[r1].status = "IntegrityError"
        /\ Answered(r2, "product_update") /\ resp[r2].status = "Success"
        /\ sizes = {2, 3}
        /\ nextId > 1
        /\ LineItems("u1", 1, 1) = {}

====
